---- MODULE Spec2Model ----
(***************************************************************************)
(* Model of the TFT gamma calibrator web tool (main.js).                   *)
(*                                                                         *)
(* main.js holds two pages' scripts: the 9-swatch page (lines 1-112,       *)
(* canvas 200x300, sliders GRAY03..GRAY87) and the 7-point page (lines     *)
(* 114-252, canvas 134x240, sliders GRAY1_2..GRAY1_128, preset selector    *)
(* CURVE and the customCurve slot).  The variable layout says which page   *)
(* is loaded.                                                              *)
(*                                                                         *)
(* JavaScript runs every handler to completion, so an event is accepted    *)
(* only when pc = "idle"; paintTestPattern is then followed through its    *)
(* positions begin -> row -> pixel -> ... -> row (y = h) -> idle.          *)
(*                                                                         *)
(* Slider values are DOM strings holding decimal integers 0..255; they     *)
(* are modelled by the integers they denote (the string/number conversions *)
(* of JS are exact on that range).  A store to the Uint8ClampedArray is    *)
(* modelled by ToUint8Clamped.  The float comparisons y < h*(k/N),         *)
(* w/3 < x, x < w*(2/3) and x > w/2 are modelled by exact integer          *)
(* cross-multiplication, which agrees with IEEE double arithmetic for      *)
(* every row and column of the two canvases.                               *)
(***************************************************************************)
EXTENDS Integers, Sequences, FiniteSets, TLC

VARIABLES
    layout,          \* 9 or 7: which page's script is running
    slider,          \* the sliders' .value, brightest-last (9) / 1/2-first (7)
    customCurve,     \* main.js:133 (7-point page); Undefined until saved
    CURVE,           \* CURVE.value, the preset selector (7-point page)
    STATUS,          \* the curve shown in STATUS.textContent
    pc,              \* position inside the running handler, or "idle"
    changedBySlider, \* argument of the running paintTestPattern
    rgbaLen,         \* imageData.data.length of the running render
    gray,            \* the locals gray03.. / gray1_2.. read from the sliders
    y, x, rowBase,   \* loop locals
    dither_dark, dither_light, solid,
    band,            \* which branch of the if-chain the current row took
    wr,              \* the stores rgba[i+0..i+3] of the latest loop body
    nWritten,        \* number of loop bodies executed in this render
    events,          \* number of UI events handled so far
    lastEvent,       \* the latest UI event: "load", "slider", or a preset name
    lastInput,       \* slider values right after the latest slider input event
    loadsSinceInput  \* preset loads since the latest slider input event

vars == <<layout, slider, customCurve, CURVE, STATUS, pc, changedBySlider,
          rgbaLen, gray, y, x, rowBase, dither_dark, dither_light, solid,
          band, wr, nWritten, events, lastEvent, lastInput,
          loadsSinceInput>>

locals == <<gray, y, x, rowBase, dither_dark, dither_light, solid, band, wr,
            nWritten, rgbaLen>>

ui == <<slider, customCurve, CURVE, events, lastEvent, lastInput,
        loadsSinceInput>>

----------------------------------------------------------------------------
(* Program constants *)

W9 == 200
H9 == 300
W7 == 134
H7 == 240

Undefined == <<-1>>

NoWrite == [i |-> -1, x |-> -1, y |-> -1, bytes |-> <<>>]

Presets == {"sRGB-ish", "2010s-LED", "2020s-P3"}

CurveNames == Presets \cup {"custom"}

(* The literal arrays of loadCurve. *)
PresetCurve(name) ==
    CASE name = "sRGB-ish"  -> <<171, 127, 97, 74, 56, 41, 30>>
      [] name = "2010s-LED" -> <<181, 129, 93, 68, 50, 36, 28>>
      [] name = "2020s-P3"  -> <<185, 135, 97, 71, 51, 36, 27>>

----------------------------------------------------------------------------
(* Bounds and input sets *)

(* UI events per run when every pixel store is followed (Spec) and when *)
(* the pixel loop is taken in one step (SpecUI).                        *)
MaxPaintEvents == 1

MaxUIEvents == 3

(* Slider positions the pages may show when loaded (index.html is not    *)
(* part of main.js, so the initial values are inputs).                   *)
InitSliders9 == { <<8, 15, 31, 64, 94, 127, 158, 191, 222>> }

InitSliders7 == { <<171, 127, 97, 74, 56, 41, 30>>,
                  <<255, 200, 150, 100, 50, 25, 0>> }

(* Values a user drags a slider to. *)
SliderInputs == {0, 90, 255}

(* The same, for the runs that follow every pixel store: a value that is *)
(* none of the literals 0, 127, 255 of paintTestPattern and none of the  *)
(* initial slider values.                                                *)
PaintInputs == {90}

----------------------------------------------------------------------------
(* Helpers *)

(* Store conversion of Uint8ClampedArray. *)
ToUint8Clamped(v) == IF v < 0 THEN 0 ELSE IF v > 255 THEN 255 ELSE v

(* (x ^ y) & 1 *)
DitherBit(xx, yy) == IF (xx % 2) = (yy % 2) THEN 0 ELSE 1

(* y < h * (k/n) *)
Below(yy, hh, k, n) == yy * n < hh * k

PixelIndex_x3(rb, xx) == rb + (xx * 3)

(* let i = rowBase + (x * 4) *)
PixelIndex(rb, xx) == rb + (xx * 4)

DitherLuma_swapped(dither, dd, dl) == IF dither = 1 THEN dl ELSE dd

(* let luma = dither ? dither_dark : dither_light *)
DitherLuma(dither, dd, dl) == IF dither = 1 THEN dd ELSE dl

----------------------------------------------------------------------------
(* Page load: the script's top-level call paintTestPattern() *)

Init ==
    /\ layout \in {9, 7}
    /\ slider \in (IF layout = 9 THEN InitSliders9 ELSE InitSliders7)
    /\ customCurve = Undefined
    /\ CURVE = (IF layout = 9 THEN "" ELSE "sRGB-ish")
    /\ STATUS = <<>>
    /\ pc = "begin"
    /\ changedBySlider = "undefined"
    /\ rgbaLen = 0
    /\ gray = <<>>
    /\ y = 0 /\ x = 0 /\ rowBase = 0
    /\ dither_dark = 0 /\ dither_light = 0 /\ solid = 0
    /\ band = 0
    /\ wr = NoWrite
    /\ nWritten = 0
    /\ events = 0
    /\ lastEvent = "load"
    /\ lastInput = <<>>
    /\ loadsSinceInput = 0

----------------------------------------------------------------------------
(* paintTestPattern, 9-swatch page *)

(* Row9 with the fourth threshold typed as 3/9 *)
Row9_slip(yy, g) ==
    IF Below(yy, H9, 1, 9) THEN
        [band |-> 1, dither_dark |-> 0, solid |-> g[1], dither_light |-> g[2]]
    ELSE IF Below(yy, H9, 2, 9) THEN
        [band |-> 2, dither_dark |-> 0, solid |-> g[2], dither_light |-> g[3]]
    ELSE IF Below(yy, H9, 3, 9) THEN
        [band |-> 3, dither_dark |-> 0, solid |-> g[3], dither_light |-> g[4]]
    ELSE IF Below(yy, H9, 3, 9) THEN
        [band |-> 4, dither_dark |-> 0, solid |-> g[4], dither_light |-> g[6]]
    ELSE IF Below(yy, H9, 5, 9) THEN
        [band |-> 5, dither_dark |-> g[4], solid |-> g[5], dither_light |-> g[6]]
    ELSE IF Below(yy, H9, 6, 9) THEN
        [band |-> 6, dither_dark |-> 0, solid |-> g[6], dither_light |-> 255]
    ELSE IF Below(yy, H9, 7, 9) THEN
        [band |-> 7, dither_dark |-> g[6], solid |-> g[7], dither_light |-> g[8]]
    ELSE IF Below(yy, H9, 8, 9) THEN
        [band |-> 8, dither_dark |-> g[6], solid |-> g[8], dither_light |-> 255]
    ELSE
        [band |-> 9, dither_dark |-> g[8], solid |-> g[9], dither_light |-> 255]

(* Row9 with band 7 dithered against black *)
Row9_black(yy, g) ==
    IF Below(yy, H9, 1, 9) THEN
        [band |-> 1, dither_dark |-> 0, solid |-> g[1], dither_light |-> g[2]]
    ELSE IF Below(yy, H9, 2, 9) THEN
        [band |-> 2, dither_dark |-> 0, solid |-> g[2], dither_light |-> g[3]]
    ELSE IF Below(yy, H9, 3, 9) THEN
        [band |-> 3, dither_dark |-> 0, solid |-> g[3], dither_light |-> g[4]]
    ELSE IF Below(yy, H9, 4, 9) THEN
        [band |-> 4, dither_dark |-> 0, solid |-> g[4], dither_light |-> g[6]]
    ELSE IF Below(yy, H9, 5, 9) THEN
        [band |-> 5, dither_dark |-> g[4], solid |-> g[5], dither_light |-> g[6]]
    ELSE IF Below(yy, H9, 6, 9) THEN
        [band |-> 6, dither_dark |-> 0, solid |-> g[6], dither_light |-> 255]
    ELSE IF Below(yy, H9, 7, 9) THEN
        [band |-> 7, dither_dark |-> 0, solid |-> g[7], dither_light |-> g[8]]
    ELSE IF Below(yy, H9, 8, 9) THEN
        [band |-> 8, dither_dark |-> g[6], solid |-> g[8], dither_light |-> 255]
    ELSE
        [band |-> 9, dither_dark |-> g[8], solid |-> g[9], dither_light |-> 255]

(* g = <<gray03, gray06, gray12, gray25, gray37, gray50, gray62, gray75,  *)
(*       gray87>>                                                         *)
Row9(yy, g) ==
    IF Below(yy, H9, 1, 9) THEN
        [band |-> 1, dither_dark |-> 0, solid |-> g[1], dither_light |-> g[2]]
    ELSE IF Below(yy, H9, 2, 9) THEN
        [band |-> 2, dither_dark |-> 0, solid |-> g[2], dither_light |-> g[3]]
    ELSE IF Below(yy, H9, 3, 9) THEN
        [band |-> 3, dither_dark |-> 0, solid |-> g[3], dither_light |-> g[4]]
    ELSE IF Below(yy, H9, 4, 9) THEN
        [band |-> 4, dither_dark |-> 0, solid |-> g[4], dither_light |-> g[6]]
    ELSE IF Below(yy, H9, 5, 9) THEN
        [band |-> 5, dither_dark |-> g[4], solid |-> g[5], dither_light |-> g[6]]
    ELSE IF Below(yy, H9, 6, 9) THEN
        [band |-> 6, dither_dark |-> 0, solid |-> g[6], dither_light |-> 255]
    ELSE IF Below(yy, H9, 7, 9) THEN
        [band |-> 7, dither_dark |-> g[6], solid |-> g[7], dither_light |-> g[8]]
    ELSE IF Below(yy, H9, 8, 9) THEN
        [band |-> 8, dither_dark |-> g[6], solid |-> g[8], dither_light |-> 255]
    ELSE
        [band |-> 9, dither_dark |-> g[8], solid |-> g[9], dither_light |-> 255]

(* (w/3 < x) && (x < w*(2/3)) *)
InSolid9(xx) == (W9 < 3 * xx) /\ (3 * xx < 2 * W9)

paintBegin9 ==
    /\ pc = "begin" /\ layout = 9
    /\ rgbaLen' = W9 * H9 * 4
    /\ gray' = slider
    /\ STATUS' = slider
    /\ dither_dark' = 0 /\ dither_light' = 255 /\ solid' = 127
    /\ y' = 0 /\ x' = 0 /\ rowBase' = 0 /\ band' = 0
    /\ wr' = NoWrite /\ nWritten' = 0
    /\ pc' = "row"
    /\ UNCHANGED <<layout, changedBySlider>>
    /\ UNCHANGED ui

paintRow9 ==
    /\ pc = "row" /\ layout = 9 /\ y < H9
    /\ rowBase' = y * W9 * 4
    /\ LET r == Row9(y, gray) IN
          /\ band' = r.band
          /\ dither_dark' = r.dither_dark
          /\ solid' = r.solid
          /\ dither_light' = r.dither_light
    /\ x' = 0
    /\ pc' = "pixel"
    /\ UNCHANGED <<layout, changedBySlider, STATUS, rgbaLen, gray, y, wr,
                   nWritten>>
    /\ UNCHANGED ui

paintPixel9 ==
    /\ pc = "pixel" /\ layout = 9 /\ x < W9
    /\ LET dither == DitherBit(x, y)
           luma0  == DitherLuma(dither, dither_dark, dither_light)
           luma   == IF InSolid9(x) THEN solid ELSE luma0
           i      == PixelIndex(rowBase, x)
       IN  wr' = [i |-> i, x |-> x, y |-> y,
                  bytes |-> <<ToUint8Clamped(luma), ToUint8Clamped(luma),
                              ToUint8Clamped(luma), ToUint8Clamped(255)>>]
    /\ nWritten' = nWritten + 1
    /\ x' = x + 1
    /\ IF x + 1 < W9
          THEN pc' = "pixel" /\ y' = y
          ELSE pc' = "row" /\ y' = y + 1
    /\ UNCHANGED <<layout, changedBySlider, STATUS, rgbaLen, gray, rowBase,
                   dither_dark, dither_light, solid, band>>
    /\ UNCHANGED ui

paintEnd9 ==
    /\ pc = "row" /\ layout = 9 /\ y >= H9
    /\ pc' = "idle"
    /\ UNCHANGED <<layout, changedBySlider, STATUS>>
    /\ UNCHANGED locals
    /\ UNCHANGED ui

----------------------------------------------------------------------------
(* paintTestPattern(changedBySlider), 7-point page *)

(* Row7 with band 3 dithered against its own solid value *)
Row7_own(yy, g) ==
    IF Below(yy, H7, 1, 7) THEN
        [band |-> 1, solid |-> g[1], dither_light |-> 255]
    ELSE IF Below(yy, H7, 2, 7) THEN
        [band |-> 2, solid |-> g[2], dither_light |-> g[1]]
    ELSE IF Below(yy, H7, 3, 7) THEN
        [band |-> 3, solid |-> g[3], dither_light |-> g[3]]
    ELSE IF Below(yy, H7, 4, 7) THEN
        [band |-> 4, solid |-> g[4], dither_light |-> g[3]]
    ELSE IF Below(yy, H7, 5, 7) THEN
        [band |-> 5, solid |-> g[5], dither_light |-> g[4]]
    ELSE IF Below(yy, H7, 6, 7) THEN
        [band |-> 6, solid |-> g[6], dither_light |-> g[5]]
    ELSE
        [band |-> 7, solid |-> g[7], dither_light |-> g[6]]

(* g = <<gray1_2, gray1_4, gray1_8, gray1_16, gray1_32, gray1_64,        *)
(*       gray1_128>>                                                      *)
Row7(yy, g) ==
    IF Below(yy, H7, 1, 7) THEN
        [band |-> 1, solid |-> g[1], dither_light |-> 255]
    ELSE IF Below(yy, H7, 2, 7) THEN
        [band |-> 2, solid |-> g[2], dither_light |-> g[1]]
    ELSE IF Below(yy, H7, 3, 7) THEN
        [band |-> 3, solid |-> g[3], dither_light |-> g[2]]
    ELSE IF Below(yy, H7, 4, 7) THEN
        [band |-> 4, solid |-> g[4], dither_light |-> g[3]]
    ELSE IF Below(yy, H7, 5, 7) THEN
        [band |-> 5, solid |-> g[5], dither_light |-> g[4]]
    ELSE IF Below(yy, H7, 6, 7) THEN
        [band |-> 6, solid |-> g[6], dither_light |-> g[5]]
    ELSE
        [band |-> 7, solid |-> g[7], dither_light |-> g[6]]

(* x > w/2 *)
InSolid7(xx) == 2 * xx > W7

(* Save slider values to the custom curve preset array *)
saveCustomCurve(s) == <<s[1], s[2], s[3], s[4], s[5], s[6]>>

Truthy(a) == a = "true"

paintBegin7 ==
    /\ pc = "begin" /\ layout = 7
    /\ rgbaLen' = W7 * H7 * 4
    /\ gray' = slider
    /\ STATUS' = slider
    /\ dither_dark' = 0 /\ dither_light' = 255 /\ solid' = 127
    /\ y' = 0 /\ x' = 0 /\ rowBase' = 0 /\ band' = 0
    /\ wr' = NoWrite /\ nWritten' = 0
    /\ pc' = "row"
    /\ UNCHANGED <<layout, changedBySlider>>
    /\ UNCHANGED ui

paintRow7 ==
    /\ pc = "row" /\ layout = 7 /\ y < H7
    /\ rowBase' = y * W7 * 4
    /\ LET r == Row7(y, gray) IN
          /\ band' = r.band
          /\ solid' = r.solid
          /\ dither_light' = r.dither_light
    /\ x' = 0
    /\ pc' = "pixel"
    /\ UNCHANGED <<layout, changedBySlider, STATUS, rgbaLen, gray, y,
                   dither_dark, wr, nWritten>>
    /\ UNCHANGED ui

paintPixel7 ==
    /\ pc = "pixel" /\ layout = 7 /\ x < W7
    /\ LET dither == DitherBit(x, y)
           luma0  == DitherLuma(dither, dither_dark, dither_light)
           luma   == IF InSolid7(x) THEN solid ELSE luma0
           i      == PixelIndex(rowBase, x)
       IN  wr' = [i |-> i, x |-> x, y |-> y,
                  bytes |-> <<ToUint8Clamped(luma), ToUint8Clamped(luma),
                              ToUint8Clamped(luma), ToUint8Clamped(255)>>]
    /\ nWritten' = nWritten + 1
    /\ x' = x + 1
    /\ IF x + 1 < W7
          THEN pc' = "pixel" /\ y' = y
          ELSE pc' = "row" /\ y' = y + 1
    /\ UNCHANGED <<layout, changedBySlider, STATUS, rgbaLen, gray, rowBase,
                   dither_dark, dither_light, solid, band>>
    /\ UNCHANGED ui

(* paintEnd7 without the call of saveCustomCurve *)
paintEnd7_nosave ==
    /\ pc = "row" /\ layout = 7 /\ y >= H7
    /\ IF Truthy(changedBySlider)
          THEN /\ CURVE' = "custom"
               /\ UNCHANGED customCurve
          ELSE UNCHANGED <<CURVE, customCurve>>
    /\ pc' = "idle"
    /\ UNCHANGED <<layout, changedBySlider, STATUS, slider, events,
                   lastEvent, lastInput, loadsSinceInput>>
    /\ UNCHANGED locals

paintEnd7 ==
    /\ pc = "row" /\ layout = 7 /\ y >= H7
    /\ IF Truthy(changedBySlider)
          THEN /\ CURVE' = "custom"
               /\ customCurve' = saveCustomCurve(slider)
          ELSE UNCHANGED <<CURVE, customCurve>>
    /\ pc' = "idle"
    /\ UNCHANGED <<layout, changedBySlider, STATUS, slider, events,
                   lastEvent, lastInput, loadsSinceInput>>
    /\ UNCHANGED locals

----------------------------------------------------------------------------
(* Event handlers *)

(* GRAYnn "input" listener -> handleSlider(tag, event) -> paintTestPattern()  *)
handleSlider(k, v) ==
    /\ pc = "idle" /\ layout = 9
    /\ slider' = [slider EXCEPT ![k] = v]
    /\ changedBySlider' = "undefined"
    /\ pc' = "begin"
    /\ events' = events + 1
    /\ lastEvent' = "slider"
    /\ lastInput' = slider'
    /\ loadsSinceInput' = 0
    /\ UNCHANGED <<layout, customCurve, CURVE, STATUS>>
    /\ UNCHANGED locals

(* GRAY1_n "input" listener -> paintTestPattern(true) *)
sliderInput(k, v) ==
    /\ pc = "idle" /\ layout = 7
    /\ slider' = [slider EXCEPT ![k] = v]
    /\ changedBySlider' = "true"
    /\ pc' = "begin"
    /\ events' = events + 1
    /\ lastEvent' = "slider"
    /\ lastInput' = slider'
    /\ loadsSinceInput' = 0
    /\ UNCHANGED <<layout, customCurve, CURVE, STATUS>>
    /\ UNCHANGED locals

(* CURVE "change" listener -> loadCurve(e.target.value) *)
loadCurve(name) ==
    /\ pc = "idle" /\ layout = 7
    /\ CURVE' = name
    /\ customCurve' = IF name = "custom" /\ customCurve = Undefined
                         THEN saveCustomCurve(slider)
                         ELSE customCurve
    /\ LET curve == IF name = "custom" THEN customCurve'
                                       ELSE PresetCurve(name)
       IN  slider' = [slider EXCEPT ![1] = curve[1], ![2] = curve[2],
                                    ![3] = curve[3], ![4] = curve[4],
                                    ![5] = curve[5], ![6] = curve[6]]
    /\ changedBySlider' = "false"
    /\ pc' = "begin"
    /\ events' = events + 1
    /\ lastEvent' = name
    /\ loadsSinceInput' = IF name \in Presets THEN loadsSinceInput + 1
                                               ELSE loadsSinceInput
    /\ UNCHANGED <<layout, STATUS, lastInput>>
    /\ UNCHANGED locals

----------------------------------------------------------------------------
(* The two loops of paintTestPattern (7-point page) taken in one step,   *)
(* from before the first row to the exit of the outer loop.  LoopExit7OK *)
(* checks this summary against the stepwise loops.                      *)
paintLoop7 ==
    /\ pc = "row" /\ layout = 7 /\ y = 0
    /\ y' = H7
    /\ x' = W7
    /\ rowBase' = (H7 - 1) * W7 * 4
    /\ band' = 7
    /\ solid' = gray[7]
    /\ dither_light' = gray[6]
    /\ wr' = [i |-> ((H7 - 1) * W7 * 4) + ((W7 - 1) * 4),
              x |-> W7 - 1, y |-> H7 - 1,
              bytes |-> <<ToUint8Clamped(gray[7]), ToUint8Clamped(gray[7]),
                          ToUint8Clamped(gray[7]), ToUint8Clamped(255)>>]
    /\ nWritten' = W7 * H7
    /\ UNCHANGED <<layout, changedBySlider, STATUS, rgbaLen, gray,
                   dither_dark, pc>>
    /\ UNCHANGED ui

LoopExit7OK ==
    (layout = 7 /\ pc = "row" /\ y >= H7) =>
        /\ y = H7 /\ x = W7 /\ rowBase = (H7 - 1) * W7 * 4
        /\ band = 7 /\ solid = gray[7] /\ dither_light = gray[6]
        /\ dither_dark = 0
        /\ wr = [i |-> ((H7 - 1) * W7 * 4) + ((W7 - 1) * 4),
                 x |-> W7 - 1, y |-> H7 - 1,
                 bytes |-> <<ToUint8Clamped(gray[7]), ToUint8Clamped(gray[7]),
                             ToUint8Clamped(gray[7]), ToUint8Clamped(255)>>]
        /\ nWritten = W7 * H7

----------------------------------------------------------------------------
(* Spec follows every pixel store of every render, on both pages. *)
Next ==
    \/ paintBegin9
    \/ paintRow9
    \/ paintPixel9
    \/ paintEnd9
    \/ paintBegin7
    \/ paintRow7
    \/ paintPixel7
    \/ paintEnd7
    \/ /\ events < MaxPaintEvents
       /\ \E k \in 1..9 : \E v \in PaintInputs : handleSlider(k, v)
    \/ /\ events < MaxPaintEvents
       /\ \E k \in 1..7 : \E v \in PaintInputs : sliderInput(k, v)

Spec == Init /\ [][Next]_vars

(* SpecUI follows the events of the 7-point page, with the pixel loops  *)
(* of each render taken in one step.                                    *)
InitUI == Init /\ layout = 7

NextUI ==
    \/ paintBegin7
    \/ paintLoop7
    \/ paintEnd7
    \/ /\ events < MaxUIEvents
       /\ \E k \in 1..7 : \E v \in SliderInputs : sliderInput(k, v)
    \/ /\ events < MaxUIEvents
       /\ \E name \in CurveNames : loadCurve(name)

SpecUI == InitUI /\ [][NextUI]_vars

----------------------------------------------------------------------------
(* Properties *)

Width == IF layout = 9 THEN W9 ELSE W7

Height == IF layout = 9 THEN H9 ELSE H7

NumBands == IF layout = 9 THEN 9 ELSE 7

(* The luma stored by the latest loop body. *)
Luma == wr.bytes[1]

(* C1: every store of a render goes to the four bytes of pixel (x,y) at   *)
(* index (y*width+x)*4 inside 0..width*height*4-1, with R=G=B and A=255;  *)
(* the stores visit the pixels in row-major order without a gap, and when *)
(* paintTestPattern has completed all width*height pixels were written.   *)
C1_BufferFullyWritten ==
    /\ (wr = NoWrite) => (nWritten = 0)
    /\ (wr # NoWrite) =>
          /\ wr.x \in 0..(Width - 1)
          /\ wr.y \in 0..(Height - 1)
          /\ wr.i = ((wr.y * Width) + wr.x) * 4
          /\ nWritten - 1 = (wr.y * Width) + wr.x
          /\ wr.i >= 0
          /\ wr.i + 3 <= (Width * Height * 4) - 1
          /\ Len(wr.bytes) = 4
          /\ wr.bytes[1] \in 0..255
          /\ wr.bytes[2] = wr.bytes[1]
          /\ wr.bytes[3] = wr.bytes[1]
          /\ wr.bytes[4] = 255
    /\ (pc \in {"row", "pixel", "idle"}) => (rgbaLen = Width * Height * 4)
    /\ (pc = "idle") => (nWritten = Width * Height)

(* A render of the 9-swatch page triggered by a slider has completed. *)
C1_Witness ==
    /\ pc = "idle" /\ layout = 9 /\ events = 1
    /\ nWritten = W9 * H9
    /\ wr.i = (W9 * H9 * 4) - 4

BandOf(yy) == IF layout = 9 THEN Row9(yy, slider).band
                            ELSE Row7(yy, slider).band

RowsOfBand(k) == {yy \in 0..(Height - 1) : BandOf(yy) = k}

(* C3: the thresholds height*(k/N) do not decrease with k; every row is   *)
(* in exactly one of the N bands, the band is the one whose thresholds    *)
(* enclose the row, the band index never decreases with y, every band has *)
(* a row and two bands differ by at most one row.                         *)
C3_BandsPartitionRows ==
    /\ (pc = "begin") =>
          /\ \A k \in 1..(NumBands - 2) : Height * k <= Height * (k + 1)
          /\ \A yy \in 0..(Height - 1) : BandOf(yy) \in 1..NumBands
          /\ \A yy \in 1..(Height - 1) : BandOf(yy - 1) <= BandOf(yy)
          /\ \A k \in 1..NumBands : Cardinality(RowsOfBand(k)) >= 1
          /\ \A j, k \in 1..NumBands :
                Cardinality(RowsOfBand(j)) - Cardinality(RowsOfBand(k)) <= 1
    /\ (pc = "pixel") =>
          /\ band \in 1..NumBands
          /\ (band - 1) * Height <= y * NumBands
          /\ (band = NumBands) \/ (y * NumBands < band * Height)

(* The last row of the 9-swatch page is painted in band 9. *)
C3_Witness ==
    /\ pc = "pixel" /\ layout = 9 /\ y = H9 - 1 /\ band = 9

(* C4 as stated: with the sRGB-ish curve on the 7-point page, row 0 has   *)
(* 171 in the middle third and alternates 0/255 elsewhere, row 239 has 30 *)
(* in the middle third and alternates 0/41 elsewhere.                     *)
C4_MiddleThirdSolid ==
    (layout = 7 /\ gray = <<171, 127, 97, 74, 56, 41, 30>> /\ wr # NoWrite
       /\ wr.y \in {0, H7 - 1}) =>
        LET middle == (3 * wr.x > W7) /\ (3 * wr.x < 2 * W7)
            light  == IF wr.y = 0 THEN 255 ELSE 41
            sol    == IF wr.y = 0 THEN 171 ELSE 30
        IN  IF middle THEN Luma = sol ELSE Luma \in {0, light}

(* C5 as stated: after loadCurve of a named preset all seven control      *)
(* points used by the render equal the preset's array.                    *)
C5_PresetLoadsSevenPoints ==
    (pc = "idle" /\ lastEvent \in Presets) =>
        /\ slider = PresetCurve(lastEvent)
        /\ STATUS = PresetCurve(lastEvent)

(* C6 as stated: loadCurve("custom") right after loadCurve("sRGB-ish"),   *)
(* with the custom slot still undefined, leaves the sliders as they were  *)
(* and makes the custom slot hold that curve.                             *)
C6_LazySnapshotHoldsCurve ==
    [][ (/\ pc = "idle" /\ lastEvent = "sRGB-ish" /\ customCurve = Undefined
         /\ events' = events + 1 /\ lastEvent' = "custom")
        => (/\ slider' = slider
            /\ customCurve' # Undefined
            /\ customCurve' = slider) ]_vars

(* C7: after a slider input, one or more preset loads and then            *)
(* loadCurve("custom"), the seven sliders (and the curve rendered) are    *)
(* those right after the slider input; and a slider input leaves the      *)
(* selector on "custom".                                                  *)
C7_CustomRestoresLastEdit ==
    /\ (pc = "idle" /\ lastEvent = "custom" /\ lastInput # <<>>
          /\ loadsSinceInput >= 1) =>
          (slider = lastInput /\ STATUS = lastInput)
    /\ (pc = "idle" /\ lastEvent = "slider") => (CURVE = "custom")

(* The 1/2 slider was dragged to 0, a preset was loaded, then "custom". *)
C7_Witness ==
    /\ pc = "idle" /\ lastEvent = "custom" /\ loadsSinceInput >= 1
    /\ lastInput # <<>> /\ lastInput[1] = 0 /\ slider[1] = 0
    /\ events = 3

(* C9 as stated: exactly one band of the 9-swatch page has a dither_dark  *)
(* other than 0, and there it is gray25.                                  *)
C9_OneBandNotBlack ==
    (layout = 9 /\ pc = "row" /\ y = 0) =>
        \E b \in 1..9 : \A yy \in 0..(H9 - 1) :
            Row9(yy, gray).dither_dark =
                IF Row9(yy, gray).band = b THEN gray[4] ELSE 0

(* C9 amended: dither_dark is 0 in bands 1, 2, 3, 4 and 6, gray25 in band *)
(* 5, gray50 in bands 7 and 8 and gray75 in band 9.                       *)
C9_DitherDarkPerBand ==
    (layout = 9 /\ pc = "pixel") =>
        /\ (band - 1) * H9 <= y * 9
        /\ (band = 9) \/ (y * 9 < band * H9)
        /\ dither_dark = CASE band \in {1, 2, 3, 4, 6} -> 0
                           [] band = 5 -> slider[4]
                           [] band \in {7, 8} -> slider[6]
                           [] band = 9 -> slider[8]

(* A row of band 8 being painted against gray50. *)
C9_Witness ==
    /\ layout = 9 /\ pc = "pixel" /\ band = 8
    /\ dither_dark = slider[6] /\ dither_dark # 0

(* C10: on the 7-point page the band k of row y is the first k with       *)
(* y < height*(k/7) (7 if none); its solid is the k-th control point, its *)
(* dither_light the (k-1)-th (255 for k = 1) and its dither_dark 0, in    *)
(* every render.                                                          *)
C10_HalvingBands ==
    (layout = 7 /\ pc = "pixel") =>
        LET k == CHOOSE kk \in 1..7 :
                    /\ (kk = 7) \/ (y * 7 < H7 * kk)
                    /\ \A j \in 1..(kk - 1) : ~(y * 7 < H7 * j)
        IN  /\ band = k
            /\ solid = slider[k]
            /\ dither_light = (IF k = 1 THEN 255 ELSE slider[k - 1])
            /\ dither_dark = 0

(* Band 3 being painted in a render that follows an earlier render. *)
C10_Witness ==
    /\ layout = 7 /\ pc = "pixel" /\ events = 1 /\ band = 3
    /\ dither_light = slider[2] /\ solid = slider[3]

====
